---- MODULE Spec2Model ----
(***************************************************************************)
(* Model of src/main.py: the Character class (position, orientation, body  *)
(* points; move, rotate, get_position, draw) and the render loop of main.  *)
(*                                                                         *)
(* Two specifications share the Character operations:                      *)
(*   Spec      an arbitrary client constructs one Character with arbitrary *)
(*             arguments and calls its methods in any order;               *)
(*   SpecMain  the render loop of main(), one action per statement of the  *)
(*             loop body, with the event queue as the environment.         *)
(* Numbers are Python ints (unbounded), so no width is modelled.           *)
(***************************************************************************)
EXTENDS Integers, Sequences, FiniteSets, TLC

VARIABLES
    x, y, orientation, body_points, \* the fields of the Character
    surface,    \* the pygame.draw calls issued on the surface since its last fill
    ret,        \* the value the last method call returned (<<>> is None)
    err,        \* the exception the last method call raised ("none" if none)
    last,       \* the last method call: its name and arguments
    ctor,       \* the arguments the Character was constructed with
    moved,      \* componentwise sum of the deltas passed to move so far
    turned,     \* the orientation before each rotate call, and its angle
    frames,     \* per draw call: the Character's state and the calls it issued
    ncalls,     \* number of method calls made so far
    pc,         \* main: the statement the loop is at
    running,    \* main: the loop flag
    polled,     \* main: the events the last pygame.event.get() returned
    steps,      \* main: the statements executed in the current iteration
    iter,       \* main: number of iterations started (saturates at MaxIter)
    quitSeen,   \* main: a QUIT event has been polled
    displayed   \* main: what the last pygame.display.flip() presented

charVars == <<x, y, orientation, body_points>>
apiVars  == <<ret, err, last, ctor, moved, turned, frames, ncalls>>
mainVars == <<pc, running, polled, steps, iter, quitSeen, displayed>>
vars     == <<x, y, orientation, body_points, surface, ret, err, last, ctor,
              moved, turned, frames, ncalls, pc, running, polled, steps, iter,
              quitSeen, displayed>>

----------------------------------------------------------------------------
(* Bounds of the model *)

MaxCalls == 4       \* method calls made by the client of Spec
MaxEvents == 2      \* events one pygame.event.get() returns
MaxIter == 3        \* iterations counted by iter before it saturates

(* Program constants *)

NumJoints == 11     \* len(body_points) < 11, range(11)
FullTurn == 360     \* % 360
Width == 800
Height == 600

----------------------------------------------------------------------------
(* Values *)

None == <<>>

\* body_points is None or a list of (offset_x, offset_y) pairs
NoBody == [isNone |-> TRUE, items |-> <<>>]
Body(items) == [isNone |-> FALSE, items |-> items]

\* The pose main() builds, and one point more for a list that is too long
SamplePose ==
    << <<-10, -30>>, <<-20, -10>>, <<-30, 5>>,
       <<10, -30>>,  <<20, -10>>,  <<30, 5>>,
       <<0, 0>>,
       <<-5, 20>>, <<-5, 40>>, <<5, 20>>, <<5, 40>> >>

LongPose == SamplePose \o << <<0, -45>> >>

White == <<255, 255, 255>>
Red   == <<255, 0, 0>>

\* draw's default arguments
DefaultArgs == [color |-> White, line_width |-> 2, point_radius |-> 4]

\* The arguments the client of Spec draws from
Positions    == { <<Width \div 2, Height \div 2>>, <<0, 0>> }
Orientations == { 0, 370, -10 }
Bodies       == { NoBody, Body(<<>>), Body(SubSeq(SamplePose, 1, NumJoints - 1)),
                  Body(SamplePose), Body(LongPose) }
Deltas       == { <<10, -5>>, <<-7, 2>> }
Angles       == { 370, 360, -90, -360 }
DrawArgs     == { DefaultArgs, [color |-> Red, line_width |-> 1, point_radius |-> 3] }

----------------------------------------------------------------------------
(* Python arithmetic *)

\* the remainder of a division that truncates toward zero (sign of a)
PyModTrunc(a, n) == IF a >= 0 THEN a % n ELSE -((-a) % n)

\* a % n for ints, n > 0: the remainder of floor division (sign of n)
PyMod(a, n) == a - n * (a \div n)

----------------------------------------------------------------------------
(* pygame.draw *)

Line(color, start, end, width) ==
    [fn |-> "line", color |-> color, start |-> start, end |-> end, size |-> width]

\* a circle has no end point: end repeats the centre
Circle(color, center, radius) ==
    [fn |-> "circle", color |-> color, start |-> center, end |-> center, size |-> radius]

----------------------------------------------------------------------------
(* Character *)

\* __init__: stores its four arguments as they are
Character(ax, ay, aorientation, abody_points) ==
    /\ x = ax
    /\ y = ay
    /\ orientation = aorientation
    /\ body_points = abody_points

\* a guard without the length test
SkipDrawNoLength(bp) == bp.isNone \/ Len(bp.items) = 0

\* a guard that lets only lists of exactly 11 points through
SkipDrawExact(bp) == bp.isNone \/ Len(bp.items) = 0 \/ Len(bp.items) # NumJoints

\* draw's guard: not self.body_points or len(self.body_points) < 11
SkipDraw(bp) == bp.isNone \/ Len(bp.items) = 0 \/ Len(bp.items) < NumJoints

\* points[i] for i in range(11); joint i of the code is index i + 1 here
Points(bp, px, py) ==
    [i \in 1..NumJoints |-> <<bp.items[i][1] + px, bp.items[i][2] + py>>]

\* a topology whose last segment starts at the wrong knee
SegmentsHip ==
    << <<0, 1>>, <<1, 2>>, <<3, 4>>, <<4, 5>>, <<0, 6>>,
       <<3, 6>>, <<6, 7>>, <<7, 8>>, <<6, 9>>, <<7, 10>> >>

\* the joint pairs of the ten pygame.draw.line calls, in call order
Segments ==
    << <<0, 1>>, <<1, 2>>, <<3, 4>>, <<4, 5>>, <<0, 6>>,
       <<3, 6>>, <<6, 7>>, <<7, 8>>, <<6, 9>>, <<9, 10>> >>

\* the offsets turned by a quarter turn per 90 degrees of orientation
Turned(bp, o) ==
    IF PyMod(o, FullTurn) = 0 THEN bp
    ELSE Body([i \in DOMAIN bp.items |-> <<-bp.items[i][2], bp.items[i][1]>>])

\* the calls of a draw that applies the orientation to the offsets
DrawCallsOriented(bp, px, py, o, args) ==
    LET points == Points(Turned(bp, o), px, py)
    IN  [k \in 1..Len(Segments) |->
            Line(args.color, points[Segments[k][1] + 1], points[Segments[k][2] + 1],
                 args.line_width)]
        \o [i \in 1..NumJoints |-> Circle(args.color, points[i], args.point_radius)]

\* the calls draw issues once its guard has passed; o, the orientation, is not read
DrawCalls(bp, px, py, o, args) ==
    LET points == Points(bp, px, py)
    IN  [k \in 1..Len(Segments) |->
            Line(args.color, points[Segments[k][1] + 1], points[Segments[k][2] + 1],
                 args.line_width)]
        \o [i \in 1..NumJoints |-> Circle(args.color, points[i], args.point_radius)]

\* the exception draw raises past its guard, "none" if none: len(None) and
\* body_points[i] for an i beyond the list
DrawError(bp) ==
    IF bp.isNone THEN "TypeError"
    ELSE IF Len(bp.items) < NumJoints THEN "IndexError"
    ELSE "none"

\* what draw appends to the surface
Drawn(bp, px, py, o, args) ==
    IF SkipDraw(bp) \/ DrawError(bp) # "none" THEN <<>>
    ELSE DrawCalls(bp, px, py, o, args)

\* the exception a draw call ends with
Raised(bp) == IF SkipDraw(bp) THEN "none" ELSE DrawError(bp)

----------------------------------------------------------------------------
(* The methods, called by an arbitrary client *)

Call(op, args) == [op |-> op, args |-> args]

Returns(value, exception) ==
    /\ ret' = value
    /\ err' = exception
    /\ ncalls' = ncalls + 1

\* a move that subtracts dy
moveDown(dx, dy) ==
    /\ ncalls < MaxCalls
    /\ x' = x + dx
    /\ y' = y - dy
    /\ last' = Call("move", <<dx, dy>>)
    /\ moved' = <<moved[1] + dx, moved[2] + dy>>
    /\ Returns(None, "none")
    /\ UNCHANGED <<orientation, body_points, surface, ctor, turned, frames, mainVars>>

\* move: self.x += dx; self.y += dy
move(dx, dy) ==
    /\ ncalls < MaxCalls
    /\ x' = x + dx
    /\ y' = y + dy
    /\ last' = Call("move", <<dx, dy>>)
    /\ moved' = <<moved[1] + dx, moved[2] + dy>>
    /\ Returns(None, "none")
    /\ UNCHANGED <<orientation, body_points, surface, ctor, turned, frames, mainVars>>

\* a rotate that also turns the stored offsets
rotateBody(angle) ==
    /\ ncalls < MaxCalls
    /\ orientation' = PyMod(orientation + angle, FullTurn)
    /\ body_points' = Turned(body_points, angle)
    /\ last' = Call("rotate", <<angle>>)
    /\ turned' = Append(turned, [before |-> orientation, angle |-> angle,
                                 after |-> orientation'])
    /\ Returns(None, "none")
    /\ UNCHANGED <<x, y, surface, ctor, moved, frames, mainVars>>

\* rotate: self.orientation = (self.orientation + angle) % 360
rotate(angle) ==
    /\ ncalls < MaxCalls
    /\ orientation' = PyMod(orientation + angle, FullTurn)
    /\ last' = Call("rotate", <<angle>>)
    /\ turned' = Append(turned, [before |-> orientation, angle |-> angle,
                                 after |-> orientation'])
    /\ Returns(None, "none")
    /\ UNCHANGED <<x, y, body_points, surface, ctor, moved, frames, mainVars>>

\* get_position: return (self.x, self.y)
get_position ==
    /\ ncalls < MaxCalls
    /\ last' = Call("get_position", <<>>)
    /\ Returns(<<x, y>>, "none")
    /\ UNCHANGED <<charVars, surface, ctor, moved, turned, frames, mainVars>>

\* draw(surface, color, line_width, point_radius)
draw(args) ==
    /\ ncalls < MaxCalls
    /\ surface' = surface \o Drawn(body_points, x, y, orientation, args)
    /\ last' = Call("draw", <<args>>)
    /\ frames' = Append(frames, [x |-> x, y |-> y, orientation |-> orientation,
                                 args |-> args, from |-> Len(surface),
                                 to |-> Len(surface')])
    /\ Returns(None, Raised(body_points))
    /\ UNCHANGED <<charVars, ctor, moved, turned, mainVars>>

Init ==
    /\ \E p \in Positions, o \in Orientations, b \in Bodies :
          /\ Character(p[1], p[2], o, b)
          /\ ctor = [x |-> p[1], y |-> p[2], orientation |-> o, body_points |-> b]
    /\ surface = <<>>
    /\ ret = None
    /\ err = "none"
    /\ last = Call("__init__", <<>>)
    /\ moved = <<0, 0>>
    /\ turned = <<>>
    /\ frames = <<>>
    /\ ncalls = 0
    /\ pc = "client"
    /\ running = FALSE
    /\ polled = <<>>
    /\ steps = <<>>
    /\ iter = 0
    /\ quitSeen = FALSE
    /\ displayed = <<>>

Next ==
    \/ \E d \in Deltas : move(d[1], d[2])
    \/ \E a \in Angles : rotate(a)
    \/ get_position
    \/ \E args \in DrawArgs : draw(args)

Spec == Init /\ [][Next]_vars

----------------------------------------------------------------------------
(* main: the render loop *)

EventTypes == {"QUIT", "KEYDOWN"}

\* what one pygame.event.get() can return
EventBatches == UNION { [1..n -> EventTypes] : n \in 0..MaxEvents }

HasQuit(batch) == \E i \in DOMAIN batch : batch[i] = "QUIT"

FrameSteps == <<"poll", "fill", "draw", "flip", "tick">>

Step(name, next) ==
    /\ steps' = Append(steps, name)
    /\ pc' = next

\* running = True; while running:
While ==
    /\ pc = "while"
    /\ IF running
       THEN /\ pc' = "poll"
            /\ steps' = <<>>
            /\ iter' = IF iter < MaxIter THEN iter + 1 ELSE iter
       ELSE /\ pc' = "quit"
            /\ UNCHANGED <<steps, iter>>
    /\ UNCHANGED <<charVars, surface, apiVars, running, polled, quitSeen, displayed>>

\* an event loop that leaves the program as soon as it meets a QUIT event
PollExits ==
    /\ pc = "poll"
    /\ \E batch \in EventBatches :
          /\ polled' = batch
          /\ running' = IF HasQuit(batch) THEN FALSE ELSE running
          /\ quitSeen' = (quitSeen \/ HasQuit(batch))
          /\ Step("poll", IF HasQuit(batch) THEN "quit" ELSE "fill")
    /\ UNCHANGED <<charVars, surface, apiVars, iter, displayed>>

\* for event in pygame.event.get(): if event.type == pygame.QUIT: running = False
Poll ==
    /\ pc = "poll"
    /\ \E batch \in EventBatches :
          /\ polled' = batch
          /\ running' = IF HasQuit(batch) THEN FALSE ELSE running
          /\ quitSeen' = (quitSeen \/ HasQuit(batch))
    /\ Step("poll", "fill")
    /\ UNCHANGED <<charVars, surface, apiVars, iter, displayed>>

\* screen.fill((0, 0, 0)): nothing drawn before it is left
Fill ==
    /\ pc = "fill"
    /\ surface' = <<>>
    /\ Step("fill", "draw")
    /\ UNCHANGED <<charVars, apiVars, running, polled, iter, quitSeen, displayed>>

\* character.draw(screen)
DrawFrame ==
    /\ pc = "draw"
    /\ surface' = surface \o Drawn(body_points, x, y, orientation, DefaultArgs)
    /\ Step("draw", "flip")
    /\ UNCHANGED <<charVars, apiVars, running, polled, iter, quitSeen, displayed>>

\* pygame.display.flip()
Flip ==
    /\ pc = "flip"
    /\ displayed' = surface
    /\ Step("flip", "tick")
    /\ UNCHANGED <<charVars, surface, apiVars, running, polled, iter, quitSeen>>

\* clock.tick(60)
Tick ==
    /\ pc = "tick"
    /\ Step("tick", "while")
    /\ UNCHANGED <<charVars, surface, apiVars, running, polled, iter, quitSeen, displayed>>

\* pygame.quit()
Quit ==
    /\ pc = "quit"
    /\ pc' = "done"
    /\ UNCHANGED <<charVars, surface, apiVars, running, polled, steps, iter, quitSeen,
                   displayed>>

InitMain ==
    /\ Character(Width \div 2, Height \div 2, 0, Body(SamplePose))
    /\ ctor = [x |-> Width \div 2, y |-> Height \div 2, orientation |-> 0,
               body_points |-> Body(SamplePose)]
    /\ surface = <<>>
    /\ ret = None
    /\ err = "none"
    /\ last = Call("__init__", <<>>)
    /\ moved = <<0, 0>>
    /\ turned = <<>>
    /\ frames = <<>>
    /\ ncalls = 0
    /\ pc = "while"
    /\ running = TRUE
    /\ polled = <<>>
    /\ steps = <<>>
    /\ iter = 0
    /\ quitSeen = FALSE
    /\ displayed = <<>>

NextMain ==
    \/ While
    \/ Poll
    \/ Fill
    \/ DrawFrame
    \/ Flip
    \/ Tick
    \/ Quit

\* the program is one thread that always executes its next statement
SpecMain == InitMain /\ [][NextMain]_vars /\ WF_vars(NextMain)

----------------------------------------------------------------------------
(* Properties *)

\* the calls the draw call recorded in frame f issued
CallsOf(f) == SubSeq(surface, f.from + 1, f.to)

\* the absolute point of joint i (0..10) for a Character at (px, py)
JointAt(px, py, i) ==
    <<px + body_points.items[i + 1][1], py + body_points.items[i + 1][2]>>

\* the topology the specification gives, as joint index pairs
SpecTopology ==
    << <<0, 1>>, <<1, 2>>, <<3, 4>>, <<4, 5>>, <<0, 6>>,
       <<3, 6>>, <<6, 7>>, <<7, 8>>, <<6, 9>>, <<9, 10>> >>

\* the 10 lines and 11 circles the specification gives for a draw at (px, py)
SpecDrawing(px, py, args) ==
    [k \in 1..(Len(SpecTopology) + NumJoints) |->
        IF k <= Len(SpecTopology)
        THEN Line(args.color, JointAt(px, py, SpecTopology[k][1]),
                  JointAt(px, py, SpecTopology[k][2]), args.line_width)
        ELSE Circle(args.color, JointAt(px, py, k - Len(SpecTopology) - 1),
                    args.point_radius)]

Short(bp) == bp.isNone \/ Len(bp.items) < NumJoints

\* C1: get_position returns the constructed position plus the componentwise
\* sum of all the deltas moved so far, whatever calls were made in between.
C1_MoveThenGetPosition ==
    last.op = "get_position" =>
        /\ ret = <<ctor.x + moved[1], ctor.y + moved[2]>>
        /\ ret = <<x, y>>

\* move(10, -5) at (400, 300), a rotate in between, then get_position: (410, 295)
C1_Witness ==
    /\ last.op = "get_position"
    /\ ctor.x = 400 /\ ctor.y = 300
    /\ moved = <<10, -5>>
    /\ turned # <<>>
    /\ ret = <<410, 295>>

C3_OrientationNormalized == orientation \in 0..(FullTurn - 1)

\* C4: draw with body_points None, empty or shorter than 11 issues no
\* line or circle call, raises nothing and changes neither surface nor Character.
C4_ShortDrawIsNoOp ==
    [][(last'.op = "draw" /\ Short(body_points)) =>
          /\ surface' = surface
          /\ err' = "none"
          /\ charVars' = charVars]_vars

\* a draw call on a Character with 10 body points has returned
C4_Witness ==
    /\ last.op = "draw"
    /\ ~body_points.isNone
    /\ Len(body_points.items) = NumJoints - 1
    /\ frames # <<>>

\* C5: draw with exactly 11 body_points issues exactly the 10 lines of the
\* fixed topology and then the 11 circles, at position + offset, in one color.
C5_DrawEleven ==
    (~body_points.isNone /\ Len(body_points.items) = NumJoints) =>
        \A n \in DOMAIN frames :
            LET f == frames[n]
                calls == CallsOf(f)
            IN  /\ Len(calls) = 21
                /\ \A k \in 1..10 : calls[k].fn = "line"
                /\ \A k \in 11..21 : calls[k].fn = "circle"
                /\ \A k \in 1..21 : calls[k].color = f.args.color
                /\ calls = SpecDrawing(f.x, f.y, f.args)

\* a Character with 11 points, moved from (400, 300) to (410, 295), was drawn there
C5_Witness ==
    /\ ~body_points.isNone /\ Len(body_points.items) = NumJoints
    /\ \E n \in DOMAIN frames :
          /\ frames[n].x = 410 /\ frames[n].y = 295
          /\ CallsOf(frames[n])[11].start = <<400, 265>>
          /\ CallsOf(frames[n])[21].start = <<415, 335>>

\* C6 as stated: draw draws only when body_points has exactly 11 entries; for
\* every other length, longer lists included, it issues no call.
C6_OnlyExactlyEleven ==
    (body_points.isNone \/ Len(body_points.items) # NumJoints) =>
        \A n \in DOMAIN frames : frames[n].to = frames[n].from

\* C6 amended: draw draws exactly when body_points has at least 11 entries; a
\* longer list is drawn as its first 11 entries, the rest is ignored.
C6_AtLeastEleven ==
    \A n \in DOMAIN frames :
        LET f == frames[n]
        IN  IF Short(body_points)
            THEN f.to = f.from
            ELSE /\ f.to = f.from + Len(SpecTopology) + NumJoints
                 /\ CallsOf(f) = SpecDrawing(f.x, f.y, f.args)

\* a Character with 12 body points was drawn: 21 calls
C6_Witness ==
    /\ ~body_points.isNone /\ Len(body_points.items) = NumJoints + 1
    /\ \E n \in DOMAIN frames : frames[n].to = frames[n].from + 21

RECURSIVE AngleSum(_, _)
\* the sum of the angles of the rotate calls i..j
AngleSum(i, j) == IF i > j THEN 0 ELSE turned[i].angle + AngleSum(i + 1, j)

\* C7: rotate calls whose angles sum to a multiple of 360 (rotate(360) alone
\* among them) return the orientation to what it was before them.
C7_FullTurnIsIdentity ==
    \A i \in DOMAIN turned : \A j \in i..Len(turned) :
        AngleSum(i, j) % FullTurn = 0 => turned[j].after = turned[i].before

\* C8: draw calls at the same position with the same arguments issue the same
\* calls, whatever the orientation was at each of them.
C8_OrientationIgnored ==
    \A m \in DOMAIN frames : \A n \in DOMAIN frames :
        (frames[m].x = frames[n].x /\ frames[m].y = frames[n].y
            /\ frames[m].args = frames[n].args)
        => CallsOf(frames[m]) = CallsOf(frames[n])

\* the Character was drawn, rotated by a quarter turn, and drawn again
C8_Witness ==
    \E m \in DOMAIN frames : \E n \in DOMAIN frames :
        /\ frames[m].x = frames[n].x /\ frames[m].y = frames[n].y
        /\ frames[m].args = frames[n].args
        /\ (frames[n].orientation - frames[m].orientation) % FullTurn = 270
        /\ Len(CallsOf(frames[m])) = 21

\* C9: move changes only the position, rotate only the orientation, and
\* get_position and draw no field; body_points keeps its constructed value.
C9_FrameEffects ==
    /\ [](body_points = ctor.body_points)
    /\ [][/\ last'.op = "move" =>
                orientation' = orientation /\ body_points' = body_points
          /\ last'.op = "rotate" =>
                x' = x /\ y' = y /\ body_points' = body_points
          /\ last'.op \in {"get_position", "draw"} => charVars' = charVars]_vars

\* move, rotate by a quarter turn, draw and get_position have all been called
C9_Witness ==
    /\ moved # <<0, 0>>
    /\ \E i \in DOMAIN turned : turned[i].angle = -90
    /\ frames # <<>>
    /\ last.op = "get_position"
    /\ ~body_points.isNone /\ Len(body_points.items) = NumJoints

\* C10: every iteration runs poll, fill, draw, flip, tick in that order; only
\* the poll step changes running; an iteration that polled QUIT still
\* completes, no iteration starts after it and the program ends; without a
\* polled QUIT the loop is never left.
C10_LoopOrder ==
    /\ [](/\ steps = SubSeq(FrameSteps, 1, Len(steps))
          /\ pc \in {"quit", "done"} => (quitSeen /\ steps = FrameSteps)
          /\ (pc = "while" /\ iter > 0) => steps = FrameSteps
          /\ pc = "tick" => (Len(surface) = 21 /\ displayed = surface))
    /\ [][/\ running' # running => (pc = "poll" /\ HasQuit(polled'))
          /\ quitSeen => pc' # "poll"
          /\ pc' = "poll" => (pc = "while" /\ running)]_vars
    /\ (quitSeen ~> pc = "done")

\* the program ended after a second iteration whose poll returned a QUIT
\* event followed by another event, and that iteration's frame was presented
C10_Witness ==
    /\ pc = "done"
    /\ iter = 2
    /\ Len(polled) = 2 /\ polled[1] = "QUIT"
    /\ steps = FrameSteps
    /\ Len(displayed) = 21

====
